---- MODULE Spec2Model ----
(***************************************************************************)
(* A model of the kinematics teaching simulator: the host component        *)
(* (src/App.tsx), its control panel (src/unnamed/part_000) and the         *)
(* simulation canvas (SimulationCanvas, the second component in            *)
(* src/components/AITutor.tsx, lines 94-716).                              *)
(*                                                                         *)
(* Numbers.  The program computes with IEEE doubles; the model computes    *)
(* with exact rationals [n |-> numerator, d |-> denominator > 0] in lowest *)
(* terms, i.e. with the real-number meaning of every formula.  Rounding    *)
(* error of the doubles is not modelled.                                   *)
(*                                                                         *)
(* Time.  The clock advances at animation frames only: a frame fires adv   *)
(* ms after the previous step, and the handlers in between run at the      *)
(* instant of the step before them.  Timestamps are kept relative to the   *)
(* current instant: sinceUi is (now - lastUiUpdateRef.current), saturating *)
(* at AgeCap, which is beyond the threshold it is compared with (100 ms);  *)
(* time - lastFrameTime.current is the adv of the frame.                   *)
(*                                                                         *)
(* Objects.  JavaScript objects are shared by reference.  The model keeps  *)
(* the values and, separately, which references denote the same object     *)
(* (posInPath, p0Shared, simState), so that an assignment through one      *)
(* reference changes what the other reference reads.                       *)
(*                                                                         *)
(* One action is one event handler (or one animation frame) together with  *)
(* the React render and the effects it triggers, in declaration order.     *)
(***************************************************************************)
EXTENDS Integers, Sequences, FiniteSets, TLC

(***************************************************************************)
(* Exact rational arithmetic                                               *)
(***************************************************************************)
Abs(k) == IF k < 0 THEN -k ELSE k

RECURSIVE Gcd(_, _)
Gcd(a, b) == IF b = 0 THEN a ELSE Gcd(b, a % b)

\* n/d in lowest terms with a positive denominator (d # 0)
Rat(n, d) ==
  LET s == IF d < 0 THEN -1 ELSE 1
      g == Gcd(Abs(n), Abs(d))
  IN  [n |-> (s * n) \div g, d |-> (s * d) \div g]

RInt(k) == [n |-> k, d |-> 1]
\* sums and comparisons go through the least common denominator, which keeps
\* the intermediate integers small
RAdd(a, b) ==
  IF a.d = b.d THEN Rat(a.n + b.n, a.d)
  ELSE LET g == Gcd(a.d, b.d)
       IN  Rat(a.n * (b.d \div g) + b.n * (a.d \div g), (a.d \div g) * b.d)
RSub(a, b) == RAdd(a, [n |-> -b.n, d |-> b.d])
RMul(a, b) ==
  LET g1 == Gcd(Abs(a.n), b.d)
      g2 == Gcd(Abs(b.n), a.d)
  IN  Rat((a.n \div g1) * (b.n \div g2), (a.d \div g2) * (b.d \div g1))
RDiv(a, b) == RMul(a, Rat(b.d, b.n))
RNeg(a) == [n |-> -a.n, d |-> a.d]
RAbs(a) == [n |-> Abs(a.n), d |-> a.d]
RLt(a, b) ==
  IF a.d = b.d THEN a.n < b.n
  ELSE LET g == Gcd(a.d, b.d) IN a.n * (b.d \div g) < b.n * (a.d \div g)
RLe(a, b) == ~RLt(b, a)
RMin(a, b) == IF RLt(b, a) THEN b ELSE a
RMax(a, b) == IF RLt(a, b) THEN b ELSE a
RZero == RInt(0)
RHalf == Rat(1, 2)

\* Math.round: the nearest integer, halves towards +infinity
MathRound(a) == (2 * a.n + a.d) \div (2 * a.d)

Vec(x, y) == [x |-> x, y |-> y]
VInt(x, y) == Vec(RInt(x), RInt(y))
VZero == VInt(0, 0)

\* Math.sqrt(dx*dx + dy*dy) > r, for r > 0.  The squares are formed only when
\* max(|dx|, |dy|) <= r < |dx| + |dy|; outside that band the answer is known.
HypotGt(dx, dy, r) ==
  \/ RLt(r, RAbs(dx))
  \/ RLt(r, RAbs(dy))
  \/ /\ RLt(r, RAdd(RAbs(dx), RAbs(dy)))
     /\ RLt(RMul(r, r), RAdd(RMul(dx, dx), RMul(dy, dy)))

\* Math.hypot(dx, dy) < r, for r > 0, likewise
HypotLt(dx, dy, r) ==
  /\ RLt(RAbs(dx), r)
  /\ RLt(RAbs(dy), r)
  /\ \/ RLt(RAdd(RAbs(dx), RAbs(dy)), r)
     \/ RLt(RAdd(RMul(dx, dx), RMul(dy, dy)), RMul(r, r))

\* Math.cos / Math.sin of a heading in degrees, for the headings of the model
CosDeg(h) == CASE h = 0 -> RInt(1) [] h = 90 -> RInt(0) [] h = 180 -> RInt(-1)
SinDeg(h) == CASE h = 0 -> RInt(0) [] h = 90 -> RInt(1) [] h = 180 -> RInt(0)


(***************************************************************************)
(* Program constants                                                       *)
(***************************************************************************)
Kinematics == "KINEMATICS"
Vectors == "VECTORS"
Boat == "BOAT"
AppMode == {Kinematics, Vectors, Boat}

\* The physics and viewport fields of SimulationConfig.  The five display
\* toggles (showVelocity, ...) are read by the drawing code only and are left out.
DEFAULT_CONFIG ==
  [ v0 |-> VInt(15, 0), a |-> Vec(RInt(0), Rat(-98, 10)), p0 |-> VInt(0, 0),
    scale |-> RInt(20), boatHeading |-> 90, riverWidth |-> RInt(50),
    riverVelocity |-> RInt(3), boatSpeed |-> RInt(4) ]

DtCap == Rat(1, 10)          \* Math.min(delta, 0.1), seconds
PathSpacing == Rat(1, 10)    \* a path point is pushed beyond 0.1 world units
UiInterval == 100            \* ms between two publications of the loop
GrabRadius == RInt(20)       \* screen pixels around the ball that grab it
MinScale == RInt(2)
MaxScale == RInt(200)

\* clientWidth / clientHeight of the canvas container (the browser's layout)
Container == [w |-> 800, h |-> 600]

(***************************************************************************)
(* Bounds of the model                                                     *)
(***************************************************************************)
\* the delays (ms) after which a frame may fire: a frame in time and a late
\* frame, beyond the 0.1 s that dt is capped at; ages saturate at AgeCap
Delays == {50, 150}
AgeCap == UiInterval + 50
\* playback is followed up to t = MaxT / 20 s; the crossing of the river, under
\* SpecBoat, up to t = MaxBoatT / 20 s
MaxT == 3
MaxBoatT == 52
\* the length (ms) of an idle period without frames, which the model lets pass
\* in one step
LongIdle == 1000
\* host events (mode, preset, reset, play, sliders) per run, pointer presses and
\* wheel notches per run (moves and releases are free: they repeat no effect),
\* host events per run of SpecBoat
MaxHostEvents == 2
MaxCanvasEvents == 1
MaxBoatEvents == 3

\* slider inputs of the control panel that the model tries
BoatSpeeds == {RInt(4), RInt(20)}
BoatHeadings == {0, 90}
PanelSpeeds == {RInt(1), RInt(4)}
PanelRivers == {RZero, RInt(4)}
RiverVelocities == {RInt(3)}
KinSliders == { <<"a", "y", RInt(0)>> }
VecSliders == { <<"v0", VInt(6, 0)>> }
Presets == {"OBLIQUE"}
\* pointer positions on the canvas that the model tries
MousePts == { VInt(60, 540), VInt(400, 50) }
WheelPts == { VInt(400, 300) }

VARIABLES
  \* App.tsx
  mode, config, isPlaying, resetSignal,
  simState,       \* what the host's simState reference shares with the engine
  \* SimulationCanvas
  stateRef,       \* stateRef.current, by value
  posInPath,      \* index of the path element that IS the position object, or 0
  p0Shared,       \* config.p0 IS the position object
  lastFrameSet,   \* lastFrameTime.current # 0
  configRef,      \* configRef.current, the configuration animate reads
  frameRequested, \* a frame requested through requestRef is pending
  idleSinceFrame, \* a long idle time has passed since lastFrameTime.current was set
  sinceUi,        \* now - lastUiUpdateRef.current (ms)
  pan, isDragging, dragTarget, lastMouseRef,
  \* history variables
  pubMutated,     \* the value last handed to onUpdateState was changed afterwards
  sincePub,       \* ms since the last call of onUpdateState
  pubGap,         \* ms between the last two calls of onUpdateState, -1: fewer than two
  loopGap,        \* time - lastUiUpdateRef at the loop's last publication, -1: none
  cfgEdited,      \* a physics field of config was edited since the last resetSimulation
  tick,           \* dt and adv (ms since the previous step) of the tick just made;
                  \* resumed: playback was started and no tick has followed yet
  lastAct,        \* the last step that changed the engine state, the physics config
                  \* or the viewport: "reset", "animate", "edit", "ballMove", "view"
  nHost, nCanvas, \* events used up
  request,        \* the host request just handled: "set" / "alert", the outcome of a
                  \* shortest-displacement request (heading set, alert shown);
                  \* "reset", an explicit reset; any other step: "none"
  probe           \* a world point, a viewport and the round trip of the point
                  \* through getW2S and getS2W (SpecView only)

vars == << mode, config, configRef, isPlaying, resetSignal, simState, stateRef, posInPath,
           p0Shared, lastFrameSet, frameRequested, idleSinceFrame, tick, sinceUi,
           pan, isDragging, dragTarget, lastMouseRef, pubMutated, sincePub, pubGap, loopGap,
           cfgEdited, lastAct, nHost, nCanvas, probe, request >>

NoTick == [dt |-> RZero, adv |-> 0, resumed |-> FALSE]
\* what a step that is no tick leaves in tick
Between == [NoTick EXCEPT !.resumed = tick.resumed]

Age(a, adv) == IF a + adv > AgeCap THEN AgeCap ELSE a + adv
\* sincePub is followed up to the 100 ms it is compared with
PubAge(a, adv) == IF a + adv > UiInterval THEN UiInterval ELSE a + adv

(***************************************************************************)
(* Viewport transform (AITutor.tsx 211-219)                                *)
(***************************************************************************)
getW2S(x, y, p, s) == Vec(RAdd(p.x, RMul(x, s)), RSub(p.y, RMul(y, s)))

\* Variant of getS2W that forgets that the screen's y axis points down
getS2WNoFlip(sx, sy, p, s) == Vec(RDiv(RSub(sx, p.x), s), RDiv(RSub(sy, p.y), s))

getS2W(sx, sy, p, s) == Vec(RDiv(RSub(sx, p.x), s), RDiv(RSub(p.y, sy), s))

\* the pan each mode starts with (viewport effect, 138-153)
DefaultPan(m, cfg) ==
  IF m = Boat
    THEN Vec(RSub(Rat(Container.w, 2), RInt(150)),
             RAdd(Rat(Container.h, 2), RDiv(RMul(cfg.riverWidth, cfg.scale), RInt(2))))
  ELSE IF m = Vectors
    THEN VInt(100, Container.h - 100)
  ELSE VInt(50, Container.h - 50)

\* Variant of ViewportInit that also runs when resetSignal changed
ViewportInitOnReset(oldMode, newMode, cfg, oldPan, resetFired) ==
  IF newMode # oldMode \/ resetFired THEN DefaultPan(newMode, cfg) ELSE oldPan

\* useEffect(..., [mode]): runs when mode changed in this render
ViewportInit(oldMode, newMode, cfg, oldPan, resetFired) ==
  IF newMode # oldMode THEN DefaultPan(newMode, cfg) ELSE oldPan

(***************************************************************************)
(* resetSimulation (156-185)                                               *)
(***************************************************************************)
BoatVelocity(cfg) ==
  Vec(RAdd(RMul(cfg.boatSpeed, CosDeg(cfg.boatHeading)), cfg.riverVelocity),
      RMul(cfg.boatSpeed, SinDeg(cfg.boatHeading)))

StartPos(cfg, m) == IF m = Boat THEN VZero ELSE cfg.p0
InitialV(cfg, m) == IF m = Boat THEN BoatVelocity(cfg) ELSE cfg.v0

\* Variant of resetSimulation that keeps the recorded path of the replaced object
resetSimulationKeepsPath(cfg, m, prev) ==
  [ t |-> RZero,
    position |-> StartPos(cfg, m),
    velocity |-> InitialV(cfg, m),
    initialVelocity |-> InitialV(cfg, m),
    acceleration |-> cfg.a,
    path |-> prev.path ]

\* the object assigned to stateRef.current; prev is the object it replaces
resetSimulation(cfg, m, prev) ==
  [ t |-> RZero,
    position |-> StartPos(cfg, m),
    velocity |-> InitialV(cfg, m),
    initialVelocity |-> InitialV(cfg, m),
    acceleration |-> cfg.a,
    path |-> << StartPos(cfg, m) >> ]

(***************************************************************************)
(* The engine's mutable cells, threaded through the steps of one handler   *)
(***************************************************************************)
Engine ==
  [ st |-> stateRef, pip |-> posInPath, p0s |-> p0Shared,
    lfs |-> lastFrameSet, req |-> frameRequested, sim |-> simState, mut |-> pubMutated,
    sp |-> sincePub, gap |-> pubGap, rst |-> FALSE ]

Live == [whole |-> TRUE, pos |-> TRUE, path |-> TRUE]
ShallowCopy == [whole |-> FALSE, pos |-> TRUE, path |-> TRUE]

\* onUpdateState(v): the host keeps the reference v (App.tsx 177, setSimState)
onUpdateState(e, sharing) ==
  [e EXCEPT !.sim = sharing, !.mut = FALSE, !.gap = e.sp, !.sp = 0]

\* An assignment to stateRef.current's fields.  posRepl / pathRepl: the position
\* object / the path array is replaced by a new one rather than changed in place.
\* The host sees the change through every reference it shares.
Assign(e, new, posRepl, pathRepl) ==
  LET old == e.st
      seesPos == e.sim.whole \/ (e.sim.pos /\ ~posRepl)
      seesPath == e.sim.whole \/ (e.sim.path /\ ~pathRepl)
      seen == \/ e.sim.whole /\ (new.t # old.t \/ new.velocity # old.velocity)
              \/ seesPos /\ new.position # old.position
              \/ seesPath /\ new.path # old.path
  IN  [e EXCEPT !.st = new,
                !.sim = [whole |-> e.sim.whole, pos |-> seesPos, path |-> seesPath],
                !.mut = e.mut \/ seen]

\* resetSimulation's effects: stateRef.current = {...}; lastFrameTime.current = 0;
\* onUpdateState(stateRef.current) (171-181)
RunReset(e, cfg, m) ==
  LET e1 == [e EXCEPT !.st = resetSimulation(cfg, m, e.st),
                      !.pip = 1,
                      !.p0s = (m # Boat),
                      !.lfs = FALSE,
                      !.rst = TRUE]
  IN  onUpdateState(e1, Live)

\* useEffect(..., [config.v0, config.a, config.boatHeading, config.boatSpeed,
\* config.riverVelocity]) (192-206)
ConfigEffect(e, cfg, m, playing) ==
  IF ~playing
    THEN IF m = Vectors THEN RunReset(e, cfg, m)
         ELSE IF m = Boat /\ e.st.t = RZero THEN RunReset(e, cfg, m)
         ELSE IF m = Kinematics /\ e.st.t = RZero
           THEN Assign(e, [e.st EXCEPT !.velocity = cfg.v0, !.acceleration = cfg.a],
                       FALSE, FALSE)
         ELSE e
    ELSE Assign(e, [e.st EXCEPT !.acceleration = cfg.a], FALSE, FALSE)

\* Variant of PlayEffect that keeps lastFrameTime when playback starts
PlayEffectKeepsTime(e, playing) ==
  IF playing THEN [e EXCEPT !.req = TRUE] ELSE [e EXCEPT !.req = FALSE]

\* Variant of PlayEffect that does not cancel the requested frame on pause
PlayEffectNoCancel(e, playing) ==
  IF playing THEN [e EXCEPT !.lfs = FALSE, !.req = TRUE] ELSE e

\* useEffect(..., [isPlaying, mode]) (592-602): on (re)start the loop clears
\* lastFrameTime and requests a frame; otherwise it cancels the requested frame
PlayEffect(e, playing) ==
  IF playing THEN [e EXCEPT !.lfs = FALSE, !.req = TRUE] ELSE [e EXCEPT !.req = FALSE]

\* The effects of one render, in declaration order: viewport (138), reset (187),
\* config (192), play (592).  physDeps: a dependency of the config effect changed.
Effects(e, m2, c2, p2, r2, physDeps) ==
  LET modeCh == m2 # mode
      e2 == IF r2 # resetSignal \/ modeCh THEN RunReset(e, c2, m2) ELSE e
      e3 == IF physDeps THEN ConfigEffect(e2, c2, m2, p2) ELSE e2
  IN  IF p2 # isPlaying \/ modeCh THEN PlayEffect(e3, p2) ELSE e3

\* the fields of config the integrators read
Physics(cfg) ==
  << cfg.v0, cfg.a, cfg.p0, cfg.boatHeading, cfg.boatSpeed, cfg.riverVelocity,
     cfg.riverWidth >>

\* Variant of ConfigRefEffect that leaves the ref alone while playback goes on
ConfigRefAtStart(ref, c2, playing) == IF playing THEN ref ELSE c2

\* useEffect(() => { configRef.current = config }, [config]) (116)
ConfigRefEffect(ref, c2, playing) == c2

\* Commit a handler's outcome: host state (m2, c2, p2, r2), the engine cells e
\* after the handler's own assignments, the pan it set, and the effects.
Commit(act, m2, c2, p2, r2, physDeps, e, pan1) ==
  \E f \in { Effects(e, m2, c2, p2, r2, physDeps) } :
      /\ mode' = m2
      /\ config' = c2
      /\ configRef' = ConfigRefEffect(configRef, c2, isPlaying /\ p2)
      /\ isPlaying' = p2
      /\ resetSignal' = r2
      /\ stateRef' = f.st
      /\ posInPath' = f.pip
      /\ p0Shared' = f.p0s
      /\ lastFrameSet' = f.lfs
      /\ frameRequested' = f.req
      /\ idleSinceFrame' = (f.lfs /\ idleSinceFrame)
      /\ tick' = [NoTick EXCEPT !.resumed = p2 /\ (~isPlaying \/ tick.resumed)]
      /\ simState' = f.sim
      /\ pubMutated' = f.mut
      /\ sincePub' = f.sp
      /\ pubGap' = f.gap
      /\ pan' = ViewportInit(mode, m2, c2, pan1, r2 # resetSignal)
      /\ cfgEdited' = IF f.rst THEN FALSE
                      ELSE cfgEdited \/ Physics(c2) # Physics(config)
      /\ lastAct' = IF f.rst THEN "reset"
                    ELSE IF act = "ballMove" THEN "ballMove"
                    ELSE IF act = "wheel" THEN "view"
                    ELSE IF Physics(c2) # Physics(config) THEN "edit"
                    ELSE lastAct
      /\ request' = IF act = "request" THEN "set"
                     ELSE IF act = "triggerReset" THEN "reset"
                     ELSE "none"
      /\ UNCHANGED probe

(***************************************************************************)
(* The animation loop: animate (515-590)                                   *)
(***************************************************************************)
\* Variant of BoatStep that does not stop the boat at the bank (no clamp of y)
BoatStepNoClamp(cfg, st, dt) ==
  IF RLe(cfg.riverWidth, st.position.y)
    THEN [st EXCEPT !.velocity = VZero]
    ELSE
      LET v == BoatVelocity(cfg)
          stepY == RAdd(st.position.y, RMul(v.y, dt))
      IN  [st EXCEPT !.velocity = IF RLe(cfg.riverWidth, stepY) THEN VZero ELSE v,
                     !.t = RAdd(st.t, dt),
                     !.position = Vec(RAdd(st.position.x, RMul(v.x, dt)), stepY)]

\* Variant of BoatStep that drifts for the whole tick on arrival (no frac)
BoatStepFullDrift(cfg, st, dt) ==
  IF RLe(cfg.riverWidth, st.position.y)
    THEN [st EXCEPT !.position = Vec(st.position.x, cfg.riverWidth),
                    !.velocity = VZero]
    ELSE
      LET v == BoatVelocity(cfg)
          stepY == RAdd(st.position.y, RMul(v.y, dt))
          arrives == RLe(cfg.riverWidth, stepY)
      IN  [st EXCEPT !.velocity = IF arrives THEN VZero ELSE v,
                     !.t = RAdd(st.t, dt),
                     !.position = Vec(RAdd(st.position.x, RMul(v.x, dt)),
                                      IF arrives THEN cfg.riverWidth ELSE stepY)]

\* Variant of BoatStep that never zeroes the velocity
BoatStepNoStop(cfg, st, dt) ==
  IF RLe(cfg.riverWidth, st.position.y)
    THEN [st EXCEPT !.position = Vec(st.position.x, cfg.riverWidth)]
    ELSE
      LET v == BoatVelocity(cfg)
          x == st.position.x
          y == st.position.y
          stepY == RAdd(y, RMul(v.y, dt))
          arrives == RLe(cfg.riverWidth, stepY)
          frac == RDiv(RSub(cfg.riverWidth, y), v.y)
          nextX == IF arrives /\ RLt(RZero, v.y)
                     THEN RAdd(x, RMul(v.x, RMin(dt, RMax(RZero, frac))))
                     ELSE RAdd(x, RMul(v.x, dt))
      IN  [st EXCEPT !.velocity = v,
                     !.t = RAdd(st.t, dt),
                     !.position = Vec(nextX, IF arrives THEN cfg.riverWidth ELSE stepY)]

\* Boat branch (523-558); the position object is changed in place
BoatStep(cfg, st, dt) ==
  IF RLe(cfg.riverWidth, st.position.y)
    THEN [st EXCEPT !.position = Vec(st.position.x, cfg.riverWidth),
                    !.velocity = VZero]
    ELSE
      LET v == BoatVelocity(cfg)
          x == st.position.x
          y == st.position.y
          stepX == RAdd(x, RMul(v.x, dt))
          stepY == RAdd(y, RMul(v.y, dt))
          arrives == RLe(cfg.riverWidth, stepY)
          frac == RDiv(RSub(cfg.riverWidth, y), v.y)
          nextX == IF arrives /\ RLt(RZero, v.y)
                     THEN RAdd(x, RMul(v.x, RMin(dt, RMax(RZero, frac))))
                     ELSE stepX
          nextY == IF arrives THEN cfg.riverWidth ELSE stepY
      IN  [st EXCEPT !.velocity = IF arrives THEN VZero ELSE v,
                     !.t = IF RLt(y, cfg.riverWidth) THEN RAdd(st.t, dt) ELSE st.t,
                     !.position = Vec(nextX, nextY)]

\* Kinematics branch (560-569); position and velocity are new objects
FreeMotion(cfg, st, newTime) ==
  LET half(ac) == RMul(RHalf, RMul(ac, RMul(newTime, newTime)))
  IN  [st EXCEPT
        !.t = newTime,
        !.velocity = Vec(RAdd(cfg.v0.x, RMul(cfg.a.x, newTime)),
                         RAdd(cfg.v0.y, RMul(cfg.a.y, newTime))),
        !.position = Vec(RAdd(RAdd(cfg.p0.x, RMul(cfg.v0.x, newTime)), half(cfg.a.x)),
                         RAdd(RAdd(cfg.p0.y, RMul(cfg.v0.y, newTime)), half(cfg.a.y)))]

\* Variant of KinematicsStep that accumulates: explicit Euler steps from the
\* previous position and velocity
KinematicsStepEuler(cfg, st, dt) ==
  [st EXCEPT
    !.t = RAdd(st.t, dt),
    !.velocity = Vec(RAdd(st.velocity.x, RMul(cfg.a.x, dt)),
                     RAdd(st.velocity.y, RMul(cfg.a.y, dt))),
    !.position = Vec(RAdd(st.position.x, RMul(st.velocity.x, dt)),
                     RAdd(st.position.y, RMul(st.velocity.y, dt)))]

KinematicsStep(cfg, st, dt) == FreeMotion(cfg, st, RAdd(st.t, dt))

\* the position object is an element of the path: changing it in place changes both
InPlace(st, pip) == IF pip > 0 THEN [st EXCEPT !.path[pip] = st.position] ELSE st

\* Variant of RecordPath that pushes the position on every tick
RecordPathEveryTick(st) == [st EXCEPT !.path = Append(st.path, st.position)]

\* Record Path (571-581): push a copy of the position
RecordPath(st) ==
  IF Len(st.path) = 0
    THEN [st EXCEPT !.path = << st.position >>]
    ELSE
      LET lastP == st.path[Len(st.path)]
          dx == RSub(st.position.x, lastP.x)
          dy == RSub(st.position.y, lastP.y)
      IN  IF HypotGt(dx, dy, PathSpacing)
            THEN [st EXCEPT !.path = Append(st.path, st.position)]
            ELSE st

\* Variant of PublishDue without the throttle
PublishAlways(uiAge) == uiAge >= 0

\* time - lastUiUpdateRef.current > 100 (583)
PublishDue(uiAge) == uiAge > UiInterval

\* Variant of ClampDt without the cap
ClampDtNone(delta) == delta

\* const dt = Math.min(delta, 0.1) (519)
ClampDt(delta) == RMin(delta, DtCap)

\* One frame: the callback requested by the running loop fires adv ms after the
\* previous step (516-519: delta is 0 when lastFrameTime was cleared).
Animate(horizon) ==
  /\ frameRequested
  /\ \E adv \in Delays :
       LET delta == IF ~lastFrameSet THEN RZero
                    ELSE IF idleSinceFrame THEN Rat(LongIdle + adv, 1000)
                    ELSE Rat(adv, 1000)
           dt == ClampDt(delta)
           uiAge == Age(sinceUi, adv)
       IN
       \E recorded \in
            { RecordPath(IF mode = Boat
                           THEN InPlace(BoatStep(configRef, stateRef, dt), posInPath)
                         ELSE IF mode = Kinematics
                           THEN KinematicsStep(configRef, stateRef, dt)
                         ELSE InPlace(stateRef, posInPath)) } :
       \E e1 \in { Assign([Engine EXCEPT !.sp = PubAge(sincePub, adv)], recorded,
                          mode = Kinematics, FALSE) } :
       \E e2 \in { IF PublishDue(uiAge) THEN onUpdateState(e1, ShallowCopy) ELSE e1 } :
           /\ RLe(recorded.t, Rat(IF mode = Boat THEN horizon ELSE MaxT, 20))
           /\ stateRef' = e2.st
           /\ posInPath' = IF mode = Kinematics THEN 0 ELSE posInPath
           /\ p0Shared' = (mode # Kinematics /\ p0Shared)
           /\ config' = IF mode # Kinematics /\ p0Shared
                          THEN [config EXCEPT !.p0 = recorded.position] ELSE config
           /\ configRef' = IF mode # Kinematics /\ p0Shared
                             THEN [configRef EXCEPT !.p0 = recorded.position] ELSE configRef
           /\ lastFrameSet' = TRUE
           /\ frameRequested' = TRUE    \* 589: isPlaying of the closure that was started
           /\ idleSinceFrame' = FALSE
           /\ tick' = [dt |-> dt, adv |-> adv, resumed |-> FALSE]
           /\ sinceUi' = IF PublishDue(uiAge) THEN 0 ELSE uiAge
           /\ loopGap' = IF PublishDue(uiAge) THEN uiAge ELSE loopGap
           /\ simState' = e2.sim
           /\ pubMutated' = e2.mut
           /\ sincePub' = e2.sp
           /\ pubGap' = e2.gap
           /\ lastAct' = "animate"
           /\ UNCHANGED << mode, isPlaying, resetSignal, pan, isDragging, dragTarget,
                           lastMouseRef, cfgEdited, nHost, nCanvas, probe >>
           /\ request' = "none"

\* Playback was paused and a long time passes without a frame: every age
\* saturates and lastFrameTime.current lies far back
Idle ==
  /\ ~frameRequested
  /\ lastFrameSet
  /\ sinceUi' = AgeCap
  /\ sincePub' = UiInterval
  /\ idleSinceFrame' = TRUE
  /\ tick' = Between
  /\ UNCHANGED << mode, config, configRef, isPlaying, resetSignal, simState, stateRef, posInPath,
                  p0Shared, lastFrameSet, frameRequested, pan, isDragging, dragTarget,
                  lastMouseRef, pubMutated, pubGap, loopGap, cfgEdited, lastAct, nHost,
                  nCanvas, probe >>
  /\ request' = "none"

(***************************************************************************)
(* Host handlers (App.tsx) and the control panel (part_000)                *)
(***************************************************************************)
HostStep(act, m2, c2, p2, r2, physDeps) ==
  /\ nHost' = nHost + 1
  /\ Commit(act, m2, c2, p2, r2, physDeps, Engine, pan)
  /\ UNCHANGED << sinceUi, loopGap, isDragging, dragTarget, lastMouseRef, nCanvas >>

\* App.tsx 45-63
ModeConfig(cfg, newMode) ==
  IF newMode = Boat
    THEN [cfg EXCEPT !.scale = RInt(10), !.p0 = VInt(0, 0), !.riverWidth = RInt(50)]
  ELSE IF newMode = Vectors
    THEN [cfg EXCEPT !.scale = RInt(30), !.p0 = VInt(5, 5), !.v0 = VInt(5, 0),
                     !.a = VInt(3, 4)]
  ELSE [cfg EXCEPT !.scale = RInt(20), !.v0 = VInt(15, 0),
                   !.a = Vec(RInt(0), Rat(-98, 10)), !.p0 = VInt(0, 0)]

\* App.tsx 40-64.  v0 and a are new objects except for the boat.
switchMode(newMode) ==
  HostStep("switchMode", newMode, ModeConfig(config, newMode), FALSE,
           resetSignal + 1, newMode # Boat)

\* App.tsx 71-97
PresetConfig(cfg, preset) ==
  LET g == Vec(RInt(0), Rat(-98, 10)) IN
  CASE preset = "FREE_FALL" ->
         [cfg EXCEPT !.p0 = VInt(0, 20), !.v0 = VInt(0, 0), !.a = g]
    [] preset = "HORIZONTAL" ->
         [cfg EXCEPT !.p0 = VInt(0, 20), !.v0 = VInt(15, 0), !.a = g]
    [] preset = "OBLIQUE" ->
         [cfg EXCEPT !.p0 = VInt(0, 0), !.v0 = VInt(15, 15), !.a = g]
    [] preset = "UNIFORM_LINEAR" ->
         [cfg EXCEPT !.p0 = VInt(0, 5), !.v0 = VInt(10, 0), !.a = VInt(0, 0)]
    [] preset = "UNIFORM_ACCEL" ->
         [cfg EXCEPT !.p0 = VInt(0, 0), !.v0 = VInt(0, 0), !.a = VInt(5, 0)]

\* App.tsx 66-100; the preset list is shown by the free-motion panel only
handlePresetChange(preset) ==
  /\ mode = Kinematics
  /\ HostStep("preset", mode, PresetConfig(config, preset), FALSE, resetSignal + 1, TRUE)

\* App.tsx 102-108
ResetConfig(cfg, m) == IF m = Kinematics THEN [cfg EXCEPT !.p0 = VInt(0, 0)] ELSE cfg

triggerReset ==
  HostStep("triggerReset", mode, ResetConfig(config, mode), FALSE, resetSignal + 1, FALSE)

\* Variant of togglePlay with a play button in every panel
togglePlayAnyMode == HostStep("togglePlay", mode, config, ~isPlaying, resetSignal, FALSE)

\* App.tsx 160; the play button is shown by the free-motion and the boat panel
togglePlay ==
  /\ mode \in {Kinematics, Boat}
  /\ HostStep("togglePlay", mode, config, ~isPlaying, resetSignal, FALSE)

\* part_000 131-152, 159: the boat panel's sliders and the theta = 90 button
BoatSlider ==
  /\ mode = Boat
  /\ \E c2 \in { [config EXCEPT !.boatSpeed = v] : v \in BoatSpeeds }
            \cup { [config EXCEPT !.riverVelocity = v] : v \in RiverVelocities }
            \cup { [config EXCEPT !.boatHeading = h] : h \in BoatHeadings } :
       /\ c2 # config
       /\ HostStep("slider", mode, c2, isPlaying, resetSignal, TRUE)

\* Math.round(Math.acos(r) * (180 / Math.PI)) for the arguments whose result
\* is a whole number of degrees before rounding
AcosDeg(r) ==
  CASE r = RInt(1) -> 0
    [] r = RZero -> 90
    [] r = RInt(-1) -> 180

\* part_000 167: the heading whose velocity over ground is perpendicular to the bank
PerpendicularHeading(cfg) == AcosDeg(RNeg(RDiv(cfg.riverVelocity, cfg.boatSpeed)))

\* Variant of CanCrossPerpendicular that accepts equal speeds too
CanCrossPerpendicularOrEqual(cfg) == RLe(cfg.riverVelocity, cfg.boatSpeed)

\* part_000 166: config.boatSpeed > config.riverVelocity
CanCrossPerpendicular(cfg) == RLt(cfg.riverVelocity, cfg.boatSpeed)

\* part_000 165-173: the shortest-displacement button of the boat panel.  The
\* alert changes no state of the host or of the engine
shortestDisplacement ==
  /\ mode = Boat
  /\ IF CanCrossPerpendicular(config)
       THEN HostStep("request", mode,
                     [config EXCEPT !.boatHeading = PerpendicularHeading(config)],
                     isPlaying, resetSignal,
                     PerpendicularHeading(config) # config.boatHeading)
       ELSE /\ request' = "alert"
            /\ nHost' = nHost + 1
            /\ tick' = Between
            /\ UNCHANGED << mode, config, configRef, isPlaying, resetSignal, simState,
                            stateRef, posInPath, p0Shared, lastFrameSet, frameRequested,
                            idleSinceFrame, sinceUi, pan, isDragging, dragTarget,
                            lastMouseRef, pubMutated, sincePub, pubGap, loopGap,
                            cfgEdited, lastAct, nCanvas, probe >>

\* part_000 131-152: the sliders of the boat panel over the inputs of SpecPanel
PanelSlider ==
  /\ mode = Boat
  /\ \E c2 \in { [config EXCEPT !.boatSpeed = v] : v \in PanelSpeeds }
            \cup { [config EXCEPT !.riverVelocity = v] : v \in PanelRivers }
            \cup { [config EXCEPT !.boatHeading = h] : h \in BoatHeadings } :
       /\ c2 # config
       /\ HostStep("slider", mode, c2, isPlaying, resetSignal, TRUE)

\* part_000 330-355: updateConfigValue('v0.x', v) etc.; the vector is a new object
KinSlider ==
  /\ mode = Kinematics
  /\ \E s \in KinSliders :
       LET axis(v) == IF s[2] = "x" THEN Vec(s[3], v.y) ELSE Vec(v.x, s[3])
           c2 == IF s[1] = "v0" THEN [config EXCEPT !.v0 = axis(config.v0)]
                                ELSE [config EXCEPT !.a = axis(config.a)]
       IN  HostStep("slider", mode, c2, isPlaying, resetSignal, TRUE)

\* part_000 198-213: handleV1MagChange / updateV2; the vector is a new object
VecSlider ==
  /\ mode = Vectors
  /\ \E s \in VecSliders :
       LET c2 == IF s[1] = "v0" THEN [config EXCEPT !.v0 = s[2]]
                                ELSE [config EXCEPT !.a = s[2]]
       IN  HostStep("slider", mode, c2, isPlaying, resetSignal, TRUE)

(***************************************************************************)
(* Pointer and wheel handlers of the canvas (604-680)                      *)
(***************************************************************************)
CanvasStep ==
  /\ nCanvas < MaxCanvasEvents
  /\ nCanvas' = nCanvas + 1
  /\ UNCHANGED << sinceUi, loopGap, nHost >>

\* the handler changes neither the host's nor the engine's state
Untouched ==
  /\ tick' = Between
  /\ UNCHANGED << mode, config, configRef, isPlaying, resetSignal, simState, stateRef, posInPath,
                  p0Shared, lastFrameSet, frameRequested, idleSinceFrame, pubMutated,
                  sincePub, pubGap,
                  cfgEdited, probe >>
  /\ request' = "none"

\* Variant of GrabsBall that grabs the ball during playback too
GrabsBallWhilePlaying(pt) ==
  /\ mode = Kinematics
  /\ LET ballScreen == getW2S(stateRef.position.x, stateRef.position.y, pan, config.scale)
     IN  HypotLt(RSub(pt.x, ballScreen.x), RSub(pt.y, ballScreen.y), GrabRadius)

\* 613-616: the pointer grabs the ball
GrabsBall(pt) ==
  /\ ~isPlaying
  /\ mode = Kinematics
  /\ LET ballScreen == getW2S(stateRef.position.x, stateRef.position.y, pan, config.scale)
     IN  HypotLt(RSub(pt.x, ballScreen.x), RSub(pt.y, ballScreen.y), GrabRadius)

handleMouseDown ==
  \E pt \in MousePts :
    /\ CanvasStep
    /\ lastMouseRef' = pt
    /\ isDragging' = TRUE
    /\ dragTarget' = IF GrabsBall(pt) THEN "ball" ELSE "pan"
    /\ pan' = pan
    /\ lastAct' = lastAct
    /\ Untouched

\* Variant of SnapToGrid that does not round
SnapToGridExact(pt, p, s) == getS2W(pt.x, pt.y, p, s)

\* 639-642: the world point under the pointer, each axis rounded to 0.5
SnapToGrid(pt, p, s) ==
  LET worldPos == getS2W(pt.x, pt.y, p, s)
  IN  Vec(Rat(MathRound(RMul(worldPos.x, RInt(2))), 2),
          Rat(MathRound(RMul(worldPos.y, RInt(2))), 2))

\* Variant of PanDrag that puts the origin under the pointer
PanDragJump(pt, p, last) == pt

\* 632-636: setPan(p => ({ x: p.x + dx, y: p.y + dy }))
PanDrag(pt, p, last) ==
  Vec(RAdd(p.x, RSub(pt.x, last.x)), RAdd(p.y, RSub(pt.y, last.y)))

handleMouseMove ==
  \E pt \in MousePts :
    /\ UNCHANGED << sinceUi, loopGap, nHost, nCanvas >>
    /\ IF isDragging /\ dragTarget = "pan"
         THEN /\ pan' = PanDrag(pt, pan, lastMouseRef)
              /\ lastMouseRef' = pt
              /\ lastAct' = "view"
              /\ Untouched
       ELSE IF isDragging /\ dragTarget = "ball"
         THEN LET newPos == SnapToGrid(pt, pan, config.scale)
                  e1 == Assign(Engine,
                               [stateRef EXCEPT !.position = newPos, !.path = << newPos >>],
                               TRUE, TRUE)
                  e2 == [e1 EXCEPT !.pip = 1, !.p0s = TRUE]
              IN  /\ Commit("ballMove", mode, [config EXCEPT !.p0 = newPos], isPlaying,
                            resetSignal, FALSE, e2, pan)
                  /\ lastMouseRef' = pt
       ELSE /\ UNCHANGED << pan, lastMouseRef, lastAct >>
            /\ Untouched
    /\ UNCHANGED << isDragging, dragTarget >>

\* Variant of handleMouseUp that keeps the drag target
handleMouseUpKeepsTarget ==
  /\ isDragging
  /\ isDragging' = FALSE
  /\ UNCHANGED << dragTarget, pan, lastMouseRef, lastAct, sinceUi, loopGap, nHost,
                  nCanvas >>
  /\ Untouched

\* 660-664, also bound to mouseleave
handleMouseUp ==
  /\ isDragging \/ dragTarget # "none"
  /\ isDragging' = FALSE
  /\ dragTarget' = "none"
  /\ UNCHANGED << pan, lastMouseRef, lastAct, sinceUi, loopGap, nHost, nCanvas >>
  /\ Untouched

\* Variant of ZoomScale without the clamp to [2, 200]
ZoomScaleUnclamped(s, zoomIn) == RMul(s, IF zoomIn THEN Rat(11, 10) ELSE Rat(9, 10))

\* 671-672
ZoomScale(s, zoomIn) ==
  LET zoomFactor == IF zoomIn THEN Rat(11, 10) ELSE Rat(9, 10)
  IN  RMax(MinScale, RMin(MaxScale, RMul(s, zoomFactor)))

\* Variant of ZoomPan that leaves pan alone when the scale changes
ZoomPanKept(pt, p, s, newScale) == p

\* 674-676
ZoomPan(pt, p, s, newScale) ==
  LET worldUnderMouse == getS2W(pt.x, pt.y, p, s)
  IN  Vec(RSub(pt.x, RMul(worldUnderMouse.x, newScale)),
          RAdd(pt.y, RMul(worldUnderMouse.y, newScale)))

handleWheel ==
  \E pt \in WheelPts, zoomIn \in BOOLEAN :
    LET newScale == ZoomScale(config.scale, zoomIn)
    IN  /\ CanvasStep
        /\ Commit("wheel", mode, [config EXCEPT !.scale = newScale], isPlaying,
                  resetSignal, FALSE, Engine, ZoomPan(pt, pan, config.scale, newScale))
        /\ UNCHANGED << isDragging, dragTarget, lastMouseRef >>

(***************************************************************************)
(* The system                                                              *)
(***************************************************************************)
\* useRef's initial value (119-126)
InitialRef(cfg) ==
  [ t |-> RZero, position |-> cfg.p0, velocity |-> cfg.v0, initialVelocity |-> cfg.v0,
    acceleration |-> cfg.a, path |-> << cfg.p0 >> ]

NoProbe ==
  [ w |-> VZero, p |-> VZero, s |-> RInt(1), screen |-> VZero, back |-> VZero,
    done |-> FALSE ]

\* The state after mount: every effect has run once (reset 187, config 192)
Mounted ==
  /\ mode = Kinematics
  /\ config = DEFAULT_CONFIG
  /\ configRef = config
  /\ isPlaying = FALSE
  /\ resetSignal = 0
  /\ stateRef = resetSimulation(DEFAULT_CONFIG, Kinematics, InitialRef(DEFAULT_CONFIG))
  /\ posInPath = 1
  /\ p0Shared = TRUE
  /\ simState = Live
  /\ lastFrameSet = FALSE
  /\ frameRequested = FALSE
  /\ idleSinceFrame = FALSE
  /\ tick = NoTick
  /\ sinceUi = AgeCap
  /\ pan = DefaultPan(Kinematics, DEFAULT_CONFIG)
  /\ isDragging = FALSE
  /\ dragTarget = "none"
  /\ lastMouseRef = VZero
  /\ pubMutated = FALSE
  /\ sincePub = UiInterval      \* the mount's publication lies 100 ms back or more
  /\ pubGap = -1
  /\ loopGap = -1
  /\ cfgEdited = FALSE
  /\ request = "none"
  /\ lastAct = "reset"
  /\ nHost = 0
  /\ nCanvas = 0

Init == Mounted /\ probe = NoProbe

\* the run has host events left
Within(max) == nHost < max

Next ==
  \/ Animate(MaxT)
  \/ Idle
  \/ \E m \in AppMode : Within(MaxHostEvents) /\ switchMode(m)
  \/ \E preset \in Presets : Within(MaxHostEvents) /\ handlePresetChange(preset)
  \/ Within(MaxHostEvents) /\ triggerReset
  \/ Within(MaxHostEvents) /\ togglePlay
  \/ Within(MaxHostEvents) /\ BoatSlider
  \/ Within(MaxHostEvents) /\ KinSlider
  \/ Within(MaxHostEvents) /\ VecSlider
  \/ handleMouseDown
  \/ handleMouseMove
  \/ handleMouseUp
  \/ handleWheel

Spec == Init /\ [][Next]_vars

\* The boat panel alone: mode button, play / pause, reset and the boat's sliders,
\* with the crossing followed to the far bank
NextBoat ==
  \/ Animate(MaxBoatT)
  \/ Idle
  \/ Within(MaxBoatEvents) /\ switchMode(Boat)
  \/ Within(MaxBoatEvents) /\ triggerReset
  \/ Within(MaxBoatEvents) /\ togglePlay
  \/ Within(MaxBoatEvents) /\ BoatSlider

SpecBoat == Init /\ [][NextBoat]_vars

\* Animate(horizon) is enabled: a frame is requested and the tick keeps t within
\* the horizon
FrameDue(horizon) ==
  /\ frameRequested
  /\ \E adv \in Delays :
       LET delta == IF ~lastFrameSet THEN RZero
                    ELSE IF idleSinceFrame THEN Rat(LongIdle + adv, 1000)
                    ELSE Rat(adv, 1000)
           st == IF mode = Boat THEN BoatStep(configRef, stateRef, ClampDt(delta))
                 ELSE IF mode = Kinematics
                   THEN KinematicsStep(configRef, stateRef, ClampDt(delta))
                 ELSE stateRef
       IN  RLe(st.t, Rat(IF mode = Boat THEN horizon ELSE MaxT, 20))

\* The boat panel with the loop scheduled fairly: while a frame is requested
\* (589, 594-595) the browser runs the callback.  The condition is
\* WF_vars(Animate(MaxBoatT)) written out, with FrameDue for ENABLED Animate
FairFrames == ([]<>(~FrameDue(MaxBoatT))) \/ ([]<><<Animate(MaxBoatT)>>_vars)

SpecCross == Init /\ [][NextBoat]_vars /\ FairFrames

(***************************************************************************)
(* The viewport transform on its own: a world point and a viewport are     *)
(* drawn from bounded sets and the point is taken to the screen and back.  *)
(***************************************************************************)
WorldCoords == { RInt(-3), RZero, Rat(5, 2), RInt(40) }
ProbePans == { VInt(50, 550), VInt(250, 550), Vec(Rat(-75, 2), RInt(-490)) }
ProbeScales == { MinScale, RInt(20), Rat(1331, 50), MaxScale }

InitView ==
  /\ Mounted
  /\ probe \in { [ w |-> Vec(x, y), p |-> p, s |-> s, screen |-> VZero, back |-> VZero,
                   done |-> FALSE ] :
                 x \in WorldCoords, y \in WorldCoords, p \in ProbePans, s \in ProbeScales }

RoundTrip ==
  /\ ~probe.done
  /\ \E screen \in { getW2S(probe.w.x, probe.w.y, probe.p, probe.s) } :
       probe' = [probe EXCEPT !.screen = screen,
                              !.back = getS2W(screen.x, screen.y, probe.p, probe.s),
                              !.done = TRUE]
  /\ UNCHANGED << mode, config, configRef, isPlaying, resetSignal, simState, stateRef, posInPath,
                  p0Shared, lastFrameSet, frameRequested, idleSinceFrame, tick, sinceUi,
                  pan, isDragging,
                  dragTarget, lastMouseRef, pubMutated, sincePub, pubGap, loopGap, cfgEdited,
                  lastAct, nHost, nCanvas, request >>

NextView == RoundTrip

SpecView == InitView /\ [][NextView]_vars

(***************************************************************************)
(* The viewport near the limits of the scale.  From the mode scales the     *)
(* limits are some 25 wheel notches away, with scales of 25 decimals; here *)
(* the canvas starts zoomed: at a limit, or one notch back from it (200 *  *)
(* 0.9 * 1.1 = 198, 2 * 1.1 = 2.2), with a pan that drags can produce.     *)
(***************************************************************************)
ZoomedScales == { MinScale, Rat(11, 5), RInt(20), RInt(198), MaxScale }

InitZoom ==
  /\ mode = Kinematics
  /\ \E s \in ZoomedScales : config = [DEFAULT_CONFIG EXCEPT !.scale = s]
  /\ configRef = config
  /\ pan \in ProbePans
  /\ isPlaying = FALSE
  /\ resetSignal = 0
  /\ stateRef = resetSimulation(DEFAULT_CONFIG, Kinematics, InitialRef(DEFAULT_CONFIG))
  /\ posInPath = 1
  /\ p0Shared = TRUE
  /\ simState = Live
  /\ lastFrameSet = FALSE
  /\ frameRequested = FALSE
  /\ idleSinceFrame = FALSE
  /\ tick = NoTick
  /\ sinceUi = AgeCap
  /\ isDragging = FALSE
  /\ dragTarget = "none"
  /\ lastMouseRef = VZero
  /\ pubMutated = FALSE
  /\ sincePub = UiInterval
  /\ pubGap = -1
  /\ loopGap = -1
  /\ cfgEdited = FALSE
  /\ request = "none"
  /\ lastAct = "reset"
  /\ nHost = 0
  /\ nCanvas = 0
  /\ probe = NoProbe

\* everything that touches the viewport: the canvas handlers and the host's
\* mode buttons, presets and reset
NextZoom ==
  \/ handleWheel
  \/ handleMouseDown
  \/ handleMouseMove
  \/ handleMouseUp
  \/ \E m \in AppMode : Within(MaxHostEvents) /\ switchMode(m)
  \/ \E preset \in Presets : Within(MaxHostEvents) /\ handlePresetChange(preset)
  \/ Within(MaxHostEvents) /\ triggerReset

SpecZoom == InitZoom /\ [][NextZoom]_vars

(***************************************************************************)
(* The whole system again, from the state the program is in after the ball *)
(* was grabbed at mount (pointer at (60, 540), paused, free motion) and    *)
(* the mode was switched to Boat with the pointer still down.  The event   *)
(* counters start anew.                                                    *)
(***************************************************************************)
GrabbedThenBoat ==
  /\ mode = Boat
  /\ config = ModeConfig(DEFAULT_CONFIG, Boat)
  /\ configRef = config
  /\ isPlaying = FALSE
  /\ resetSignal = 1
  /\ stateRef = resetSimulation(config, Boat, InitialRef(DEFAULT_CONFIG))
  /\ posInPath = 1
  /\ p0Shared = FALSE
  /\ simState = Live
  /\ lastFrameSet = FALSE
  /\ frameRequested = FALSE
  /\ idleSinceFrame = FALSE
  /\ tick = NoTick
  /\ sinceUi = AgeCap
  /\ pan = DefaultPan(Boat, config)
  /\ isDragging = TRUE
  /\ dragTarget = "ball"
  /\ lastMouseRef = VInt(60, 540)
  /\ pubMutated = FALSE
  /\ sincePub = 0
  /\ pubGap = UiInterval
  /\ loopGap = -1
  /\ cfgEdited = FALSE
  /\ request = "none"
  /\ lastAct = "reset"

InitStale == GrabbedThenBoat /\ nHost = 0 /\ nCanvas = 0 /\ probe = NoProbe

SpecStale == InitStale /\ [][Next]_vars

(***************************************************************************)
(* The boat panel with the shortest-displacement button.  The run starts   *)
(* after the mode was switched to Boat and the river slider was moved to   *)
(* 0 (part_000 141-146), so that every feasible request asks for a heading *)
(* of 90 degrees.                                                          *)
(***************************************************************************)
PanelOpened ==
  /\ mode = Boat
  /\ config = [ModeConfig(DEFAULT_CONFIG, Boat) EXCEPT !.riverVelocity = RZero]
  /\ configRef = config
  /\ isPlaying = FALSE
  /\ resetSignal = 1
  /\ stateRef = resetSimulation(config, Boat, InitialRef(DEFAULT_CONFIG))
  /\ posInPath = 1
  /\ p0Shared = FALSE
  /\ simState = Live
  /\ lastFrameSet = FALSE
  /\ frameRequested = FALSE
  /\ idleSinceFrame = FALSE
  /\ tick = NoTick
  /\ sinceUi = AgeCap
  /\ pan = DefaultPan(Boat, config)
  /\ isDragging = FALSE
  /\ dragTarget = "none"
  /\ lastMouseRef = VInt(0, 0)
  /\ pubMutated = FALSE
  /\ sincePub = 0
  /\ pubGap = 0
  /\ loopGap = -1
  /\ cfgEdited = FALSE
  /\ request = "none"
  /\ lastAct = "reset"

InitPanel == PanelOpened /\ nHost = 0 /\ nCanvas = 0 /\ probe = NoProbe

NextPanel ==
  \/ Animate(MaxT)
  \/ Idle
  \/ Within(MaxBoatEvents) /\ triggerReset
  \/ Within(MaxBoatEvents) /\ togglePlay
  \/ Within(MaxBoatEvents) /\ PanelSlider
  \/ Within(MaxBoatEvents) /\ shortestDisplacement

SpecPanel == InitPanel /\ [][NextPanel]_vars

(***************************************************************************)
(* Free motion paused in flight: the state after play was pressed at       *)
(* mount, the first frame (dt = 0) and a second frame 50 ms later ran, and *)
(* pause was pressed.  The event counters start anew.                      *)
(***************************************************************************)
PausedInFlight ==
  /\ mode = Kinematics
  /\ config = DEFAULT_CONFIG
  /\ configRef = config
  /\ isPlaying = FALSE
  /\ resetSignal = 0
  /\ stateRef = RecordPath(KinematicsStep(config,
                   RecordPath(KinematicsStep(config,
                     resetSimulation(config, Kinematics, InitialRef(config)), RZero)),
                   Rat(50, 1000)))
  /\ posInPath = 0
  /\ p0Shared = FALSE
  /\ simState = [whole |-> FALSE, pos |-> FALSE, path |-> TRUE]
  /\ lastFrameSet = TRUE
  /\ frameRequested = FALSE
  /\ idleSinceFrame = FALSE
  /\ tick = NoTick
  /\ sinceUi = 50
  /\ pan = DefaultPan(Kinematics, config)
  /\ isDragging = FALSE
  /\ dragTarget = "none"
  /\ lastMouseRef = VZero
  /\ pubMutated = TRUE
  /\ sincePub = 50
  /\ pubGap = UiInterval
  /\ loopGap = AgeCap
  /\ cfgEdited = FALSE
  /\ request = "none"
  /\ lastAct = "animate"

InitPaused == PausedInFlight /\ nHost = 0 /\ nCanvas = 0 /\ probe = NoProbe

SpecPaused == InitPaused /\ [][Next]_vars

(***************************************************************************)
(* Properties                                                              *)
(***************************************************************************)
\* the closed form of free motion at time t under cfg
ClosedPosition(cfg, t) ==
  LET tt == RMul(t, t)
  IN  Vec(RAdd(cfg.p0.x, RAdd(RMul(cfg.v0.x, t), RMul(RHalf, RMul(cfg.a.x, tt)))),
          RAdd(cfg.p0.y, RAdd(RMul(cfg.v0.y, t), RMul(RHalf, RMul(cfg.a.y, tt)))))
ClosedVelocity(cfg, t) ==
  Vec(RAdd(cfg.v0.x, RMul(cfg.a.x, t)), RAdd(cfg.v0.y, RMul(cfg.a.y, t)))

\* C1: in free-motion mode, after every tick, position = p0 + v0*t + a*t^2/2 and
\* velocity = v0 + a*t at the accumulated t with the config the tick used; hence
\* the state is a function of (config, t) alone, whatever ticks led to t.
C1_ClosedForm ==
  (mode = Kinematics /\ lastAct = "animate") =>
     /\ stateRef.position = ClosedPosition(config, stateRef.t)
     /\ stateRef.velocity = ClosedVelocity(config, stateRef.t)

\* a free-motion state after several ticks of different sizes, under gravity
C1_Witness ==
  /\ mode = Kinematics
  /\ lastAct = "animate"
  /\ stateRef.t = Rat(3, 20)
  /\ config.a.y # RZero

\* the boat is at the far bank
AtBank == mode = Boat /\ stateRef.position.y = config.riverWidth

\* C2: in boat mode, every state with position.y = riverWidth has velocity (0,0),
\* and every tick from such a state leaves t, position and velocity unchanged.
C2_TerminalAbsorbing ==
  [][ AtBank =>
        /\ stateRef.velocity = VZero
        /\ (lastAct' = "animate" /\ mode' = Boat) =>
              /\ stateRef'.t = stateRef.t
              /\ stateRef'.position = stateRef.position
              /\ stateRef'.velocity = stateRef.velocity ]_vars

CleanCrossing ==
  /\ AtBank
  /\ ~cfgEdited
  /\ RLt(RZero, BoatVelocity(config).y)

\* C4: after a crossing played from a reset with an unchanged config with vy > 0,
\* the landing x is vx * riverWidth / vy, whatever the ticks.
C4_LandingX ==
  CleanCrossing =>
    stateRef.position.x =
      RDiv(RMul(BoatVelocity(config).x, config.riverWidth), BoatVelocity(config).y)

\* the boat landed by a tick that was cut short at the bank
C4_Witness ==
  /\ CleanCrossing
  /\ lastAct = "animate"
  /\ stateRef.t = Rat(51, 20)
  /\ stateRef.position.x = Rat(15, 2)

\* C5: after such a crossing, the frozen t is the crossing time riverWidth / vy,
\* whatever the ticks.
C5_FrozenTime ==
  CleanCrossing => stateRef.t = RDiv(config.riverWidth, BoatVelocity(config).y)

\* C6 as stated: any two successive calls of onUpdateState are at least 100 ms
\* apart, resets and mode switches included.
C6_AllCallsThrottled == pubGap = -1 \/ pubGap >= UiInterval

\* C6: any two successive calls of onUpdateState made by the animation loop are
\* more than 100 ms apart (the calls made by resetSimulation are not throttled).
C6_LoopThrottled == loopGap = -1 \/ loopGap > UiInterval

\* the loop has published during motion, hence for at least the second time
C6_Witness ==
  /\ lastAct = "animate"
  /\ loopGap > UiInterval
  /\ sinceUi = 0
  /\ RLt(RZero, stateRef.t)

\* C7: no field of the value handed to onUpdateState is changed afterwards by a
\* tick, a ball drag or a reset.
C7_PublishedImmutable == ~pubMutated

\* C8: after every reinitialization (resetSignal increased or mode changed) the
\* state is determined by the current config and mode: t = 0, position = start
\* point, velocity = initialVelocity = the mode's initial velocity, path =
\* [start point], nothing kept of the previous state.
C8_ResetDetermined ==
  [][ (resetSignal' # resetSignal \/ mode' # mode) =>
        /\ stateRef'.t = RZero
        /\ stateRef'.position = StartPos(config', mode')
        /\ stateRef'.velocity = InitialV(config', mode')
        /\ stateRef'.initialVelocity = InitialV(config', mode')
        /\ stateRef'.path = << StartPos(config', mode') >> ]_vars

\* a reset that came after the loop had moved the object
C8_Witness ==
  /\ lastAct = "reset"
  /\ resetSignal > 0
  /\ loopGap # -1
  /\ sinceUi = 50
  /\ stateRef.t = RZero

\* C9 as stated: every increase of resetSignal sets pan to the default pan of the
\* current mode.
C9_ResetRestoresPan ==
  [][ resetSignal' > resetSignal => pan' = DefaultPan(mode', config') ]_vars

\* C9: an increase of resetSignal sets pan to the mode's default when it comes
\* with a change of mode, and leaves pan as it was otherwise.
C9_PanFollowsMode ==
  [][ resetSignal' > resetSignal =>
        pan' = IF mode' # mode THEN DefaultPan(mode', config') ELSE pan ]_vars

\* a reset without change of mode after the view was panned or zoomed
C9_Witness ==
  /\ lastAct = "reset"
  /\ resetSignal > 0
  /\ pan # DefaultPan(mode, config)

\* C10: for every world point and every viewport with scale in [2, 200] and any
\* pan, getS2W(getW2S(w)) = w.
C10_RoundTrip == probe.done => probe.back = probe.w

\* a point off both axes taken through the largest scale
C10_Witness ==
  /\ probe.done
  /\ probe.s = MaxScale
  /\ probe.w = Vec(Rat(5, 2), RInt(-3))
  /\ probe.screen # probe.w

\* a step of handleWheel: a canvas event that is no pointer press
WheelStep ==
  /\ nCanvas' = nCanvas + 1
  /\ UNCHANGED << isDragging, dragTarget, lastMouseRef >>

\* C11: a wheel zoom at a screen anchor keeps the world point under the anchor:
\* getS2W(anchor) with the pan and scale before the event equals getS2W(anchor)
\* with the pan and scale after it, also when the new scale is clamped.
C11_ZoomAnchor ==
  [][ WheelStep =>
        \A pt \in WheelPts :
          getS2W(pt.x, pt.y, pan', config'.scale) = getS2W(pt.x, pt.y, pan, config.scale)
    ]_vars

\* one notch in from scale 198: the new scale was clamped to 200, the pan moved
C11_Witness ==
  /\ nCanvas = 1
  /\ ~isDragging
  /\ lastAct = "view"
  /\ config.scale = MaxScale
  /\ pan \notin ProbePans

\* C12: the scale lies in [2, 200] in every reachable state, after any sequence
\* of wheel events, mode switches, presets and resets.
C12_ScaleClamped == RLe(MinScale, config.scale) /\ RLe(config.scale, MaxScale)

\* one notch out from scale 2.2: 1.98 was clamped to 2
C12_Witness ==
  /\ nCanvas = 1
  /\ ~isDragging
  /\ lastAct = "view"
  /\ config.scale = MinScale
  /\ pan \notin ProbePans

\* C13: in every reachable state path is non-empty and any two consecutive
\* points of path are at least 0.1 world units apart.
C13_PathSpacing ==
  /\ Len(stateRef.path) >= 1
  /\ \A i \in 1..(Len(stateRef.path) - 1) :
       ~HypotLt(RSub(stateRef.path[i + 1].x, stateRef.path[i].x),
                RSub(stateRef.path[i + 1].y, stateRef.path[i].y), PathSpacing)

\* a free-motion path with several recorded points
C13_Witness ==
  /\ mode = Kinematics
  /\ lastAct = "animate"
  /\ Len(stateRef.path) >= 3

\* a step of the animation loop (every frame comes adv > 0 ms after the previous step)
TickStep == frameRequested /\ tick'.adv > 0

\* C14: in free-motion and boat mode a tick neither changes nor removes a point
\* already in path: the path before the tick is a prefix of the path after it.
C14_AppendOnly ==
  [][ (TickStep /\ mode \in {Kinematics, Boat}) =>
        /\ Len(stateRef'.path) >= Len(stateRef.path)
        /\ SubSeq(stateRef'.path, 1, Len(stateRef.path)) = stateRef.path ]_vars

\* C15: in free-motion and boat mode, when a tick produces a position more than
\* 0.1 world units from the point that was last in path before the tick, the
\* position is appended to path.
C15_PathAppended ==
  [][ ( /\ TickStep
        /\ mode \in {Kinematics, Boat}
        /\ LET lastP == stateRef.path[Len(stateRef.path)]
           IN  HypotGt(RSub(stateRef'.position.x, lastP.x),
                       RSub(stateRef'.position.y, lastP.y), PathSpacing) )
      => stateRef'.path = Append(stateRef.path, stateRef'.position) ]_vars

\* C16: once the playing flag is cleared, or a reset signal is issued, no loop
\* iteration executes until the playing flag is set again: a tick happens only
\* while the flag is set, and every reset signal leaves the flag cleared.
C16_LoopStopped ==
  [][ /\ TickStep => isPlaying
      /\ resetSignal' # resetSignal => ~isPlaying' ]_vars

\* paused during motion: the requested frame is cancelled
C16_Witness ==
  /\ ~isPlaying
  /\ ~frameRequested
  /\ lastAct = "animate"
  /\ RLt(RZero, stateRef.t)

\* C17: the first tick after playback was started computes with a dt that is at
\* most the time that passed since the start, however long the pause before it
C17_ResumeDt ==
  [][ (TickStep /\ tick.resumed) => RLe(tick'.dt, Rat(tick'.adv, 1000)) ]_vars

\* playback resumed after earlier motion and the first tick was made
C17_Witness ==
  /\ isPlaying
  /\ tick.adv > 0
  /\ tick.dt = RZero
  /\ RLt(RZero, stateRef.t)

\* the integrator's result for a tick of size dt with configuration cfg
TickResult(cfg, dt) ==
  IF mode = Boat THEN BoatStep(cfg, stateRef, dt)
  ELSE IF mode = Kinematics THEN KinematicsStep(cfg, stateRef, dt)
  ELSE stateRef

\* C18: every tick, whenever the configuration was set, computes t, position and
\* velocity from the configuration committed last before it, not from the one
\* playback started with
C18_LatestConfig ==
  [][ TickStep =>
        \A r \in { TickResult(config, tick'.dt) } :
           /\ stateRef'.t = r.t
           /\ stateRef'.position = r.position
           /\ stateRef'.velocity = r.velocity ]_vars

\* gravity was switched off during playback (a path point was recorded under
\* gravity) and ticks have followed
C18_Witness ==
  /\ mode = Kinematics
  /\ isPlaying
  /\ lastAct = "animate"
  /\ tick.dt # RZero
  /\ config.a.y = RZero
  /\ Len(stateRef.path) >= 2
  /\ stateRef.path[2].y # RZero

\* the boat has reached the far bank: its tick adds nothing to t
BoatTerminal == mode = Boat /\ RLe(config.riverWidth, stateRef.position.y)

\* C19: a tick adds its dt to t, with 0 <= dt <= 0.1 s, and adds nothing in the
\* boat's terminal state; every other step leaves t alone or is a
\* reinitialization that sets it to 0
C19_TimeAdvance ==
  [][ IF TickStep
        THEN /\ RLe(RZero, tick'.dt)
             /\ RLe(tick'.dt, DtCap)
             /\ stateRef'.t = IF BoatTerminal THEN stateRef.t
                               ELSE RAdd(stateRef.t, tick'.dt)
        ELSE \/ stateRef'.t = stateRef.t
             \/ stateRef'.t = RZero /\ lastAct' = "reset" ]_vars

\* a late frame: the tick's dt is the cap, less than the time that passed
C19_Witness ==
  /\ lastAct = "animate"
  /\ tick.adv > 100
  /\ tick.dt = DtCap
  /\ RLe(DtCap, stateRef.t)

\* a pointer press: a canvas event that is no wheel event
PointerDown ==
  /\ nCanvas' = nCanvas + 1
  /\ \/ lastAct' # "view"
     \/ << isDragging', dragTarget', lastMouseRef' >> # << isDragging, dragTarget, lastMouseRef >>

\* the press at lastMouseRef' is less than 20 screen pixels from the ball
PressNearBall ==
  LET b == getW2S(stateRef.position.x, stateRef.position.y, pan, config.scale)
  IN  HypotLt(RSub(lastMouseRef'.x, b.x), RSub(lastMouseRef'.y, b.y), RInt(20))

\* C20: a pointer press starts a drag of the ball exactly when playback is
\* paused, the mode is free motion and the press is less than 20 screen pixels
\* from the ball; every other press starts a drag of the viewport
C20_DragTarget ==
  [][ PointerDown =>
        /\ isDragging'
        /\ dragTarget' = IF ~isPlaying /\ mode = Kinematics /\ PressNearBall
                           THEN "ball" ELSE "pan" ]_vars

\* the ball was grabbed, paused in free motion, after it had moved
C20_Witness ==
  /\ isDragging
  /\ dragTarget = "ball"
  /\ ~isPlaying
  /\ mode = Kinematics
  /\ RLt(RZero, stateRef.t)

\* a pointer move while the ball is dragged
BallMoveStep ==
  /\ isDragging /\ dragTarget = "ball"
  /\ isDragging'
  /\ lastAct' = "ballMove"
  /\ tick'.adv = 0
  /\ UNCHANGED << nHost, nCanvas, sinceUi, sincePub, idleSinceFrame >>

\* q is a multiple of 0.5 and a nearest one to w
NearestHalf(q, w) ==
  /\ RMul(q, RInt(2)).d = 1
  /\ RLe(RAbs(RSub(q, w)), Rat(1, 4))

\* C21: a pointer move that drags the ball puts config.p0 and position at the
\* pointer's world position rounded per axis to the nearest 0.5 and makes path
\* the one-element sequence of that point
C21_BallDrag ==
  [][ BallMoveStep =>
        \A w \in { getS2W(lastMouseRef'.x, lastMouseRef'.y, pan, config.scale) } :
           /\ NearestHalf(config'.p0.x, w.x)
           /\ NearestHalf(config'.p0.y, w.y)
           /\ stateRef'.position = config'.p0
           /\ stateRef'.path = << config'.p0 >> ]_vars

\* the ball was dragged to a grid point away from the pointer's world position
\* (which lies off the grid)
C21_Witness ==
  /\ lastAct = "ballMove"
  /\ isDragging /\ dragTarget = "ball"
  /\ stateRef.position = config.p0
  /\ getS2W(lastMouseRef.x, lastMouseRef.y, pan, config.scale) # config.p0

\* Idle, Dragging(pan) or Dragging(ball)
ControllerState ==
  /\ dragTarget \in {"none", "pan", "ball"}
  /\ isDragging <=> dragTarget # "none"

\* a pointer release or leave during a drag: nothing but the drag state changes
ReleaseStep ==
  /\ isDragging
  /\ << isDragging', dragTarget' >> # << isDragging, dragTarget >>
  /\ UNCHANGED << mode, config, isPlaying, resetSignal, stateRef, pan, lastMouseRef,
                  nHost, nCanvas, sinceUi >>

\* C22: the controller is always Idle, Dragging(pan) or Dragging(ball), with
\* isDragging true exactly when there is a drag target, and a pointer release or
\* leave ends in Idle
C22_Controller ==
  /\ ControllerState
  /\ [][ /\ ControllerState'
         /\ ReleaseStep => (~isDragging' /\ dragTarget' = "none") ]_vars

\* Idle again after a press and a release
C22_Witness ==
  /\ ~isDragging
  /\ dragTarget = "none"
  /\ nCanvas > 0
  /\ lastMouseRef \in MousePts

\* a pointer move while the viewport is dragged
PanMoveStep ==
  /\ isDragging /\ dragTarget = "pan"
  /\ isDragging'
  /\ lastAct' = "view"
  /\ tick'.adv = 0
  /\ UNCHANGED << nHost, nCanvas, sinceUi, sincePub, idleSinceFrame >>

\* a wheel event that changes the scale
ZoomStep == nCanvas' = nCanvas + 1 /\ config'.scale # config.scale

\* the step leaves the physics state and the drag state alone
PhysicsKept ==
  /\ stateRef'.t = stateRef.t
  /\ stateRef'.position = stateRef.position
  /\ stateRef'.velocity = stateRef.velocity
  /\ stateRef'.path = stateRef.path
  /\ UNCHANGED << isDragging, dragTarget >>

\* C23: a tick leaves pan and scale alone; a pointer move that drags the
\* viewport adds the pointer's screen delta to pan and, like a wheel event,
\* leaves t, position, velocity, path and the drag state alone
C23_Separation ==
  [][ /\ TickStep => (pan' = pan /\ config'.scale = config.scale)
      /\ PanMoveStep =>
            /\ pan'.x = RAdd(pan.x, RSub(lastMouseRef'.x, lastMouseRef.x))
            /\ pan'.y = RAdd(pan.y, RSub(lastMouseRef'.y, lastMouseRef.y))
            /\ PhysicsKept
      /\ ZoomStep => PhysicsKept ]_vars

\* the viewport was dragged away after the body had moved
C23_Witness ==
  /\ lastAct = "view"
  /\ isDragging /\ dragTarget = "pan"
  /\ pan # DefaultPan(mode, config)
  /\ RLt(RZero, stateRef.t)

\* the boat is under way with no velocity towards the far bank
Drifting ==
  /\ mode = Boat
  /\ isPlaying
  /\ RLe(BoatVelocity(config).y, RZero)
  /\ RLt(stateRef.position.y, config.riverWidth)

\* C24: a playing boat below the far bank whose vy <= 0 stays below the bank,
\* and each of its ticks adds its dt to t, for as long as playback goes on with
\* vy <= 0 and no reset comes
C24_NoLanding ==
  [][ ( /\ Drifting
        /\ mode' = Boat /\ isPlaying' /\ resetSignal' = resetSignal
        /\ RLe(BoatVelocity(config').y, RZero) ) =>
        /\ RLt(stateRef'.position.y, config'.riverWidth)
        /\ TickStep => stateRef'.t = RAdd(stateRef.t, tick'.dt) ]_vars

\* C25: a shortest-displacement request made while boatSpeed <= riverVelocity
\* leaves the whole config unchanged and shows the alert; a request made while
\* boatSpeed > riverVelocity changes at most the heading
RequestStep == nHost' = nHost + 1 /\ request' \in {"set", "alert"}
C25_Infeasible ==
  [][ RequestStep =>
        IF RLe(config.boatSpeed, config.riverVelocity)
          THEN config' = config /\ request' = "alert"
          ELSE /\ request' = "set"
               /\ config' = [config EXCEPT !.boatHeading = config'.boatHeading] ]_vars
C25_Witness ==
  /\ request = "alert"
  /\ RLe(config.boatSpeed, config.riverVelocity)
  /\ config.boatSpeed = config.riverVelocity

\* a tick of positive dt
PositiveTick == TickStep /\ RLt(RZero, tick'.dt)

\* the boat is under way towards the far bank: boat mode, playing, vy > 0
Crossing == mode = Boat /\ isPlaying /\ RLt(RZero, BoatVelocity(config).y)

\* the boat's terminal state
Landed ==
  /\ mode = Boat
  /\ stateRef.position.y = config.riverWidth
  /\ stateRef.velocity = VZero

\* C26: in boat mode with vy > 0, when ticks of positive dt keep occurring, the
\* boat reaches the terminal state (position.y = riverWidth, velocity = (0,0))
\* unless playback is paused or reset, the mode is left or vy stops being > 0
C26_Lands == ([]<><<PositiveTick>>_vars) => (Crossing ~> (Landed \/ ~Crossing))
C26_Witness ==
  /\ Landed
  /\ Crossing
  /\ RLt(RZero, stateRef.t)
  /\ tick.adv > 0

\* C27: whenever the ball is being dragged the simulation is paused and the
\* mode is free motion, and a pointer-move that drags the ball happens only then
C27_DragWhilePaused ==
  /\ (isDragging /\ dragTarget = "ball") => (~isPlaying /\ mode = Kinematics)
  /\ [][ BallMoveStep => (~isPlaying /\ mode = Kinematics) ]_vars

\* a tick of free motion whose dt is 0
ZeroTick == TickStep /\ mode = Kinematics /\ tick'.dt = RZero

\* C28: in free-motion mode a tick with dt = 0 leaves position and velocity
\* unchanged
C28_ZeroTickStill ==
  [][ ZeroTick => /\ stateRef'.position = stateRef.position
                  /\ stateRef'.velocity = stateRef.velocity ]_vars

\* the step is the host's explicit reset
ExplicitReset == nHost' = nHost + 1 /\ request' = "reset"

\* C29: the host's explicit reset changes no field of the config, and after it
\* the body is at the start point of the config held before the reset
C29_ResetKeepsConfig ==
  [][ ExplicitReset => /\ config' = config
                       /\ stateRef'.position = StartPos(config, mode) ]_vars

\* C30: whenever the mode is Vectors the simulation is not playing and t is 0
C30_VectorsAtRest == mode = Vectors => (~isPlaying /\ stateRef.t = RZero)
C30_Witness ==
  /\ mode = Vectors
  /\ config.v0 = VInt(6, 0)
  /\ nHost = 2
  /\ ~isPlaying
  /\ stateRef.t = RZero

====
